---- MODULE Spec2Model ----
(***************************************************************************)
(* Model of kirara_ai/plugins/llm_preset_adapters/ollama_adapter.py:       *)
(* OllamaAdapter.chat (request mapping, POST, response mapping),           *)
(* OllamaAdapter.auto_detect_models, and the event loops chat creates.     *)
(*                                                                         *)
(* One caller thread is modelled: chat is a blocking call, so a call runs  *)
(* from its entry to its return or raise before the next one starts.       *)
(***************************************************************************)
EXTENDS Integers, Sequences, FiniteSets, TLC

VARIABLES
    pc,             \* position of the caller: "idle", "post" (chat has built its
                    \* payload and is about to POST), "done" (chat returned),
                    \* "raised" (chat raised), "detected", "detect_raised"
    calls,          \* number of chat calls started so far
    loops,          \* loops[i]: state of the event loop created by the i-th chat
                    \* call; "open" until the adapter closes it
    current_loop,   \* id of the loop installed as the thread's current loop (0: none)
    media_loop,     \* id of the loop the running call resolved media ids on (0: none)
    req,            \* chat's argument (None outside a chat call)
    messages,       \* chat's local `messages`
    resolved,       \* what resolve_media_ids returned in this call (None: not run)
    data,           \* chat's local `data`, the POST body (None: not built)
    posts,          \* POSTs issued by the running call
    http_status,    \* status of the response to the POST / GET (0: none yet)
    response_data,  \* chat's / auto_detect_models' local `response_data` (None: not parsed)
    result,         \* value returned to the caller (None: nothing returned)
    error           \* exception raised to the caller ("none": no exception)

vars == <<pc, calls, loops, current_loop, media_loop, req, messages, resolved,
          data, posts, http_status, response_data, result, error>>

----------------------------------------------------------------------------
(* Bounds of the explored inputs. *)

\* messages in one request
MaxMsgs == 2
\* content parts in one request, over all its messages
MaxParts == 3
\* entries of `message.tool_calls` in one backend response
MaxToolCalls == 2
\* entries of `models` in one /api/tags response
MaxModels == 2
\* chat calls in one behaviour
MaxCalls == 2

----------------------------------------------------------------------------
(* Python values. *)

\* Python's None and a present value; Optional fields hold one of the two.
None == <<>>
Some(v) == <<v>>

\* dict.get(key, default)
Get(d, key, default) == IF key \in DOMAIN d THEN d[key] ELSE default

\* the dict d restricted to the keys in K
Restrict(d, K) == [k \in K |-> d[k]]

----------------------------------------------------------------------------
(* Content parts and messages of an LLMChatRequest.  The part at position  *)
(* j of message i carries values that name (i, j), so that any reordering, *)
(* loss or duplication of parts or messages changes the mapped payload.    *)

Tag(prefix, i, j) == prefix \o ToString(i) \o ToString(j)

LLMChatTextContent(i, j) == [type |-> "text", text |-> Tag("t", i, j)]
LLMChatImageContent(i, j) == [type |-> "image", media_id |-> Tag("m", i, j)]
LLMToolCallContent(i, j) ==
    [type |-> "tool_call", name |-> Tag("f", i, j), parameters |-> Some([x |-> j])]
LLMToolResultContent(i, j) ==
    [type |-> "tool_result", content |-> Tag("r", i, j), name |-> Tag("f", i, j)]

NormalPart(kind, i, j) ==
    CASE kind = "text" -> LLMChatTextContent(i, j)
      [] kind = "image" -> LLMChatImageContent(i, j)
      [] kind = "tool_call" -> LLMToolCallContent(i, j)

\* role of the i-th message when it is not a tool message
NormalRole(i) == IF i % 2 = 1 THEN "user" ELSE "assistant"

\* The messages with n content parts that can stand at position i.  A tool
\* message holds tool results (line 71 reads part.content and part.name of
\* each of its parts); any other message holds text, image and tool-call
\* parts, the three kinds lines 76-81 tell apart.
MessagesAt(i, n) ==
    { [role |-> NormalRole(i), content |-> [j \in 1..n |-> NormalPart(kinds[j], i, j)]] :
        kinds \in [1..n -> {"text", "image", "tool_call"}] }
    \cup { [role |-> "tool", content |-> [j \in 1..n |-> LLMToolResultContent(i, j)]] }

\* the lists of k messages for positions i, i+1, ... holding at most `budget` parts
RECURSIVE MessageLists(_, _, _)
MessageLists(i, k, budget) ==
    IF k = 0 THEN { <<>> }
    ELSE UNION { { <<m>> \o rest : m \in MessagesAt(i, n),
                                   rest \in MessageLists(i + 1, k - 1, budget - n) } :
                 n \in 0..budget }

AllMessageLists == UNION { MessageLists(1, k, MaxParts) : k \in 0..MaxMsgs }

\* a Tool object of the request, and tool.model_dump()
Tool(name) == <<"Tool", name>>
model_dump(tool) == [type |-> "function", name |-> tool[2]]

LLMChatRequest(model, msgs, temperature, top_p, max_tokens, stop, tools) ==
    [model |-> model, messages |-> msgs, temperature |-> temperature, top_p |-> top_p,
     max_tokens |-> max_tokens, stop |-> stop, tools |-> tools]

\* one plain request: a single text message, every parameter given
PlainRequest ==
    LLMChatRequest(Some("llama3"), << [role |-> "user", content |-> <<LLMChatTextContent(1, 1)>>] >>,
                   Some("0.7"), Some("0.9"), Some(128), Some(<<"END">>), Some(<<Tool("lookup")>>))

\* requests that vary in their messages
MessageRequests ==
    { LLMChatRequest(Some("llama3"), msgs, Some("0.7"), None, Some(128), None, None) :
        msgs \in AllMessageLists }

\* requests that vary in their model and generation parameters
ParameterRequests ==
    { LLMChatRequest(model, PlainRequest.messages, temperature, top_p, max_tokens, stop, tools) :
        model \in {None, Some("llama3")},
        temperature \in {None, Some("0.7")},
        top_p \in {None, Some("0.9")},
        max_tokens \in {None, Some(128)},
        stop \in {None, Some(<<"END">>)},
        tools \in {None, Some(<<>>), Some(<<Tool("lookup")>>)} }

Requests == MessageRequests \cup ParameterRequests

----------------------------------------------------------------------------
(* Responses of the backend. *)

\* HTTP statuses the backend may answer with
Statuses == {200, 300, 404, 500}

\* the i-th entry of `message.tool_calls`; `arguments` may be missing
ToolCallEntry(i, with_arguments) ==
    [function |-> Restrict([name |-> "fn" \o ToString(i), arguments |-> [q |-> i]],
                           IF with_arguments THEN {"name", "arguments"} ELSE {"name"})]

ToolCallLists ==
    UNION { { [i \in 1..n |-> ToolCallEntry(i, flags[i])] : flags \in [1..n -> BOOLEAN] } :
            n \in 0..MaxToolCalls }

\* the `message` object of a chat response; `content` and `tool_calls` may be missing
BackendMessages ==
    { Restrict([content |-> "hi", tool_calls |-> tcs], K) :
        tcs \in ToolCallLists, K \in SUBSET {"content", "tool_calls"} }

\* the JSON bodies of a chat response; any of the three fields may be missing
ChatBodies ==
    { Restrict([message |-> m, prompt_eval_count |-> 5, eval_count |-> 10], K) :
        m \in BackendMessages, K \in SUBSET {"message", "prompt_eval_count", "eval_count"} }

\* a response is a status and a body; the body None is one that is not JSON
ChatResponses ==
    { [status |-> s, body |-> b] : s \in Statuses, b \in {None} \cup { Some(x) : x \in ChatBodies } }

\* two plain responses: a well-formed answer with one tool call, and a server error
PlainResponses ==
    { [status |-> 200,
       body |-> Some([message |-> [content |-> "hi", tool_calls |-> <<ToolCallEntry(1, TRUE)>>],
                      prompt_eval_count |-> 5, eval_count |-> 10])],
      [status |-> 500, body |-> None] }

\* the `models` arrays of an /api/tags response; each entry has more than its name
ModelLists ==
    UNION { [1..n -> { [name |-> nm, size |-> 4] : nm \in {"llama3", "qwen2"} }] :
            n \in 0..MaxModels }

TagResponses ==
    { [status |-> s, body |-> b] :
        s \in Statuses,
        b \in {None, Some([version |-> "1"])} \cup { Some([models |-> ms]) : ms \in ModelLists } }

----------------------------------------------------------------------------
(* Request mapping: chat, lines 65-106. *)

\* MediaManager.get_media(media_id).get_base64(): the base64 form of the
\* medium, a string that is not the media id itself
get_base64(media_id) == "base64:" \o media_id

resolve_media_ids(media_ids) == [k \in 1..Len(media_ids) |-> get_base64(media_ids[k])]

\* One iteration of `for part in msg.content` for a message that is not a
\* tool message.  st holds chat's locals; st.error is the exception that
\* ended the loop, if any.  The dict of the message is built and appended
\* inside this loop, once per part that is not a tool call.
ForPart(role, part, st) ==
    IF st.error # "none" THEN st
    ELSE LET text_content == IF part.type = "text" THEN st.text_content \o part.text
                             ELSE st.text_content
             images == IF part.type = "image" THEN Append(st.images, part.media_id)
                       ELSE st.images
             message == [role |-> role, content |-> text_content]
         IN IF part.type = "tool_call" THEN st
            ELSE IF images # <<>>
                 \* the right-hand side is evaluated, then the subscript
                 \* assignment to the list `messages` raises
                 THEN [st EXCEPT !.text_content = text_content, !.images = images,
                                 !.resolved = Some(resolve_media_ids(images)),
                                 !.error = "TypeError"]
                 ELSE [st EXCEPT !.text_content = text_content, !.images = images,
                                 !.messages = Append(st.messages, message)]

RECURSIVE ForParts(_, _, _, _)
ForParts(role, content, j, st) ==
    IF j > Len(content) THEN st
    ELSE ForParts(role, content, j + 1, ForPart(role, content[j], st))

\* ToolEntries without the `name` of the part
ToolEntries_NoName(msg) ==
    [j \in 1..Len(msg.content) |-> [role |-> "tool", content |-> msg.content[j].content]]

\* the entries a tool message is mapped to
ToolEntries(msg) ==
    [j \in 1..Len(msg.content) |->
        [role |-> "tool", content |-> msg.content[j].content, name |-> msg.content[j].name]]

\* One iteration of `for msg in req.messages`.
ForMessage(msg, st) ==
    IF st.error # "none" THEN st
    ELSE IF msg.role = "tool"
         THEN [st EXCEPT !.messages = st.messages \o ToolEntries(msg)]
         ELSE ForParts(msg.role, msg.content, 1,
                       [st EXCEPT !.text_content = "", !.images = <<>>])

RECURSIVE ForMessages(_, _, _)
ForMessages(msgs, i, st) ==
    IF i > Len(msgs) THEN st
    ELSE ForMessages(msgs, i + 1, ForMessage(msgs[i], st))

\* chat's locals after the loop over req.messages
MapMessages(msgs) ==
    ForMessages(msgs, 1, [messages |-> <<>>, text_content |-> "", images |-> <<>>,
                          resolved |-> None, error |-> "none"])

\* {k: v for k, v in d.items() if v is not None}
DropNone(d) == [k \in { k \in DOMAIN d : d[k] # None } |-> d[k][1]]

\* Options with `if req.tools is not None` in place of `if req.tools`
Options_KeepsEmptyTools(r) ==
    [temperature |-> r.temperature,
     top_p |-> r.top_p,
     num_predict |-> r.max_tokens,
     stop |-> r.stop,
     tools |-> IF r.tools # None
               THEN Some([k \in 1..Len(r.tools[1]) |-> model_dump(r.tools[1][k])]) ELSE None]

Options(r) ==
    [temperature |-> r.temperature,
     top_p |-> r.top_p,
     num_predict |-> r.max_tokens,
     stop |-> r.stop,
     tools |-> IF r.tools # None /\ r.tools[1] # <<>>
               THEN Some([k \in 1..Len(r.tools[1]) |-> model_dump(r.tools[1][k])]) ELSE None]

\* the body of the POST
Payload(r, msgs) ==
    LET top == DropNone([model |-> r.model,
                         messages |-> Some(msgs),
                         stream |-> Some(FALSE),
                         options |-> Some(Options(r))])
    IN IF "options" \in DOMAIN top
       THEN [top EXCEPT !["options"] = DropNone(top["options"])]
       ELSE top

----------------------------------------------------------------------------
(* Response mapping: convert_llm_response, resolve_tool_calls_form_content *)
(* and the return statement of chat.                                       *)

\* LLMToolCallContent(name=..., parameters=...) of one backend entry
ToolCallContentOf(tool_call) ==
    [type |-> "tool_call",
     name |-> tool_call["function"]["name"],
     parameters |-> IF "arguments" \in DOMAIN tool_call["function"]
                    THEN Some(tool_call["function"]["arguments"]) ELSE None]

\* ToolCall(function=Function(name=..., arguments=...)) of one backend entry
ToolCallOf(call) ==
    [function |-> [name |-> call["function"]["name"],
                   arguments |-> IF "arguments" \in DOMAIN call["function"]
                                 THEN Some(call["function"]["arguments"]) ELSE None]]

convert_llm_response(rd) ==
    LET content == << [type |-> "text",
                       text |-> Get(rd["message"], "content", "")] >>
        tool_calls == Get(rd["message"], "tool_calls", <<>>)
    IN IF tool_calls # <<>>
       THEN content \o [k \in 1..Len(tool_calls) |-> ToolCallContentOf(tool_calls[k])]
       ELSE content

\* The list `calls` (here `built`) is built and never returned: the function falls off its
\* end when there are tool calls, and returns None when there are none.
resolve_tool_calls_form_content(rd) ==
    LET tool_calls == Get(rd["message"], "tool_calls", <<>>)
        built == [k \in 1..Len(tool_calls) |-> ToolCallOf(tool_calls[k])]
    IN IF tool_calls # <<>> THEN None ELSE None

\* Usage with the completion count alone as the total
Usage_TotalIsCompletion(rd) ==
    [prompt_tokens |-> rd["prompt_eval_count"],
     completion_tokens |-> rd["eval_count"],
     total_tokens |-> rd["eval_count"]]

Usage(rd) ==
    [prompt_tokens |-> rd["prompt_eval_count"],
     completion_tokens |-> rd["eval_count"],
     total_tokens |-> rd["prompt_eval_count"] + rd["eval_count"]]

\* a key the return statement subscripts is missing
LookupFails(rd) ==
    \/ "message" \notin DOMAIN rd
    \/ "prompt_eval_count" \notin DOMAIN rd
    \/ "eval_count" \notin DOMAIN rd

LLMChatResponse(r, rd) ==
    [model |-> r.model,
     message |-> [content |-> convert_llm_response(rd),
                  role |-> "assistant",
                  finish_reason |-> "stop",
                  tool_calls |-> resolve_tool_calls_form_content(rd)],
     usage |-> Usage(rd)]

\* raise_for_status that lets client errors through
raise_for_status_ServerOnly(status) == 500 <= status /\ status < 600

\* requests.Response.raise_for_status raises on a 4xx or 5xx status
raise_for_status(status) == 400 <= status /\ status < 600

\* aiohttp.ClientResponse.raise_for_status raises on a status of 400 or more
aiohttp_raise_for_status(status) == status >= 400

\* ModelNames in reverse order
ModelNames_Reversed(rd) ==
    [i \in 1..Len(rd["models"]) |-> rd["models"][Len(rd["models"]) + 1 - i]["name"]]

\* [tag["name"] for tag in response_data["models"]]
ModelNames(rd) == [i \in 1..Len(rd["models"]) |-> rd["models"][i]["name"]]

----------------------------------------------------------------------------
(* The state machine. *)

Init ==
    /\ pc = "idle"
    /\ calls = 0
    /\ loops = <<>>
    /\ current_loop = 0
    /\ media_loop = 0
    /\ req = None
    /\ messages = <<>>
    /\ resolved = None
    /\ data = None
    /\ posts = 0
    /\ http_status = 0
    /\ response_data = None
    /\ result = None
    /\ error = "none"

\* chat, lines 61-106: a new event loop is created and installed, the
\* messages are mapped and the payload is built; the call raises when the
\* mapping does.  No path calls loop.close() or installs another loop.
ChatBegin(reqs) ==
    /\ pc = "idle"
    /\ calls < MaxCalls
    /\ \E r \in reqs :
        LET loop == Len(loops) + 1
            st == MapMessages(r.messages)
        IN /\ calls' = calls + 1
           /\ loops' = Append(loops, "open")
           /\ current_loop' = loop
           /\ media_loop' = IF st.resolved # None THEN loop ELSE 0
           /\ req' = Some(r)
           /\ messages' = st.messages
           /\ resolved' = st.resolved
           /\ IF st.error # "none"
              THEN /\ pc' = "raised"
                   /\ error' = st.error
                   /\ data' = None
              ELSE /\ pc' = "post"
                   /\ error' = "none"
                   /\ data' = Some(Payload(r, st.messages))
    /\ UNCHANGED <<posts, http_status, response_data, result>>

\* chat, lines 108-129: the POST, its response, and the return or raise.
ChatPost(resps) ==
    /\ pc = "post"
    /\ \E resp \in resps :
        /\ posts' = posts + 1
        /\ http_status' = resp.status
        /\ IF raise_for_status(resp.status)
           THEN /\ pc' = "raised"
                /\ error' = "HTTPError"
                /\ response_data' = None
                /\ result' = None
           ELSE IF resp.body = None
           THEN /\ pc' = "raised"
                /\ error' = "JSONDecodeError"
                /\ response_data' = None
                /\ result' = None
           ELSE /\ response_data' = resp.body
                /\ IF LookupFails(resp.body[1])
                   THEN /\ pc' = "raised"
                        /\ error' = "KeyError"
                        /\ result' = None
                   ELSE /\ pc' = "done"
                        /\ error' = "none"
                        /\ result' = Some(LLMChatResponse(req[1], resp.body[1]))
    /\ UNCHANGED <<calls, loops, current_loop, media_loop, req, messages, resolved, data>>

\* auto_detect_models, lines 131-137: the GET, its response, and the return or raise.
AutoDetectModels(resps) ==
    /\ pc = "idle"
    /\ \E resp \in resps :
        /\ http_status' = resp.status
        /\ IF aiohttp_raise_for_status(resp.status)
           THEN /\ pc' = "detect_raised"
                /\ error' = "ClientResponseError"
                /\ response_data' = None
                /\ result' = None
           ELSE IF resp.body = None
           THEN /\ pc' = "detect_raised"
                /\ error' = "ContentTypeError"
                /\ response_data' = None
                /\ result' = None
           ELSE /\ response_data' = resp.body
                /\ IF "models" \notin DOMAIN resp.body[1]
                   THEN /\ pc' = "detect_raised"
                        /\ error' = "KeyError"
                        /\ result' = None
                   ELSE /\ pc' = "detected"
                        /\ error' = "none"
                        /\ result' = Some(ModelNames(resp.body[1]))
    /\ UNCHANGED <<calls, loops, current_loop, media_loop, req, messages, resolved, data, posts>>

\* The caller has the value or the exception; the locals of the call are
\* gone.  The loops created so far and the thread's current loop remain.
Finish ==
    /\ pc \in {"done", "raised", "detected", "detect_raised"}
    /\ pc' = "idle"
    /\ media_loop' = 0
    /\ req' = None
    /\ messages' = <<>>
    /\ resolved' = None
    /\ data' = None
    /\ posts' = 0
    /\ http_status' = 0
    /\ response_data' = None
    /\ result' = None
    /\ error' = "none"
    /\ UNCHANGED <<calls, loops, current_loop>>

\* Every request, against a backend that gives one of two plain answers.
Next ==
    \/ ChatBegin(Requests)
    \/ ChatPost(PlainResponses)
    \/ AutoDetectModels(TagResponses)
    \/ Finish

Spec == Init /\ [][Next]_vars

\* One plain request, against every answer of the backend.
NextResponse ==
    \/ ChatBegin({PlainRequest})
    \/ ChatPost(ChatResponses)
    \/ Finish

SpecResponse == Init /\ [][NextResponse]_vars

----------------------------------------------------------------------------
(* Properties. *)

\* the request, the payload and its `messages` of the running chat call
TheRequest == req[1]
ThePayload == data[1]
Entries == data[1]["messages"]

IsPrefix(s, t) == Len(s) <= Len(t) /\ SubSeq(t, 1, Len(s)) = s

PartsOfType(msg, type) == { j \in 1..Len(msg.content) : msg.content[j].type = type }

\* the media ids of the image parts of msg, in part order
RECURSIVE MediaIds(_, _)
MediaIds(msg, j) ==
    IF j > Len(msg.content) THEN <<>>
    ELSE (IF msg.content[j].type = "image" THEN <<msg.content[j].media_id>> ELSE <<>>)
         \o MediaIds(msg, j + 1)

\* every message is a non-tool message made of one or more text parts
TextOnly(r) ==
    \A i \in 1..Len(r.messages) :
        /\ r.messages[i].role # "tool"
        /\ Len(r.messages[i].content) >= 1
        /\ PartsOfType(r.messages[i], "text") = 1..Len(r.messages[i].content)

\* a non-tool message with no text part and no image part
Bare(msg) ==
    /\ msg.role # "tool"
    /\ PartsOfType(msg, "text") = {}
    /\ PartsOfType(msg, "image") = {}

\* C1: for a request of N text-only non-tool messages, the payload's
\* `messages` has exactly N entries, the i-th with the role of the i-th
\* input message and with a content.
C1_OneEntryPerTextMessage ==
    (req # None /\ TextOnly(TheRequest)) =>
        /\ data # None
        /\ Len(Entries) = Len(TheRequest.messages)
        /\ \A i \in 1..Len(Entries) :
            /\ Entries[i].role = TheRequest.messages[i].role
            /\ "content" \in DOMAIN Entries[i]

\* C2: every non-tool message without text and image parts gives exactly one
\* entry, with its role and the empty string as content: for each role, the
\* payload holds as many such entries as the request holds such messages.
C2_BareMessageKept ==
    data # None =>
        \A role \in {"user", "assistant"} :
            Cardinality({ n \in 1..Len(Entries) : Entries[n] = [role |-> role, content |-> ""] })
            = Cardinality({ i \in 1..Len(TheRequest.messages) :
                              /\ TheRequest.messages[i].role = role
                              /\ Bare(TheRequest.messages[i]) })

\* C3: when the backend response holds k >= 1 tool calls, the returned
\* content is one text part followed by k tool-call parts in the backend's
\* order, and the structured tool_calls list holds the same k entries.
C3_BothToolCallForms ==
    (pc = "done" /\ "tool_calls" \in DOMAIN response_data[1]["message"]
                 /\ response_data[1]["message"]["tool_calls"] # <<>>) =>
        LET backend == response_data[1]["message"]["tool_calls"]
            k == Len(backend)
            message == result[1]["message"]
        IN /\ Len(message["content"]) = k + 1
           /\ message["content"][1]["type"] = "text"
           /\ \A i \in 1..k :
                /\ message["content"][i + 1]["type"] = "tool_call"
                /\ message["content"][i + 1]["name"] = backend[i]["function"]["name"]
           /\ message["tool_calls"] # None
           /\ Len(message["tool_calls"][1]) = k
           /\ \A i \in 1..k :
                /\ message["tool_calls"][1][i]["function"]["name"] = backend[i]["function"]["name"]
                /\ message["tool_calls"][1][i]["function"]["arguments"]
                   = (IF "arguments" \in DOMAIN backend[i]["function"]
                      THEN Some(backend[i]["function"]["arguments"]) ELSE None)

\* C4: a request with image parts reaches the POST; the entry of a message
\* with m >= 1 image parts carries `images`, the base64 forms of its m media
\* ids in part order; no other entry carries `images`.
C4_ImagesAttached ==
    req # None =>
        /\ data # None
        /\ \A i \in 1..Len(TheRequest.messages) :
            LET msg == TheRequest.messages[i]
            IN (msg.role # "tool" /\ PartsOfType(msg, "image") # {}) =>
                \E n \in 1..Len(Entries) :
                    /\ Entries[n].role = msg.role
                    /\ "images" \in DOMAIN Entries[n]
                    /\ Entries[n]["images"] = resolve_media_ids(MediaIds(msg, 1))
        /\ \A n \in 1..Len(Entries) :
            "images" \in DOMAIN Entries[n] =>
                \E i \in 1..Len(TheRequest.messages) :
                    /\ PartsOfType(TheRequest.messages[i], "image") # {}
                    /\ Entries[n]["images"] = resolve_media_ids(MediaIds(TheRequest.messages[i], 1))

\* C5: in the POST body no key holds a null: `model` is a key exactly when
\* the request names a model; each of temperature, top_p, num_predict, stop
\* and tools is a key of `options` exactly when the request gives it a value
\* (an empty tools list counts as none) and then holds that value; `stream`
\* is always present and false.
C5_NoNullInPayload ==
    data # None =>
        LET r == TheRequest
            options == ThePayload["options"]
        IN /\ {"messages", "stream", "options"} \subseteq DOMAIN ThePayload
           /\ DOMAIN ThePayload \subseteq {"model", "messages", "stream", "options"}
           /\ ThePayload["stream"] = FALSE
           /\ ("model" \in DOMAIN ThePayload) <=> (r.model # None)
           /\ DOMAIN options \subseteq {"temperature", "top_p", "num_predict", "stop", "tools"}
           /\ ("temperature" \in DOMAIN options) <=> (r.temperature # None)
           /\ ("top_p" \in DOMAIN options) <=> (r.top_p # None)
           /\ ("num_predict" \in DOMAIN options) <=> (r.max_tokens # None)
           /\ ("stop" \in DOMAIN options) <=> (r.stop # None)
           /\ ("tools" \in DOMAIN options) <=> (r.tools # None /\ r.tools[1] # <<>>)
           /\ r.model # None => ThePayload["model"] = r.model[1]
           /\ r.temperature # None => options["temperature"] = r.temperature[1]
           /\ r.top_p # None => options["top_p"] = r.top_p[1]
           /\ r.max_tokens # None => options["num_predict"] = r.max_tokens[1]
           /\ r.stop # None => options["stop"] = r.stop[1]
           /\ (r.tools # None /\ r.tools[1] # <<>>) => Len(options["tools"]) = Len(r.tools[1])

\* a payload built from a request without max_tokens, with an empty tools list
C5_Witness ==
    /\ pc = "post"
    /\ data # None
    /\ TheRequest.max_tokens = None
    /\ TheRequest.tools = Some(<<>>)
    /\ TheRequest.temperature # None
    /\ "num_predict" \notin DOMAIN ThePayload["options"]
    /\ "temperature" \in DOMAIN ThePayload["options"]

\* C6 as stated: a chat call whose POST was answered with a non-2xx status
\* ends by raising and returns no response.
C6_NonSuccessRaises ==
    (pc \in {"done", "raised"} /\ posts > 0 /\ ~(200 <= http_status /\ http_status < 300)) =>
        /\ pc = "raised"
        /\ result = None

\* C6, amended: a chat call whose POST was answered with a 4xx or 5xx status
\* ends by raising the transport error: no response is returned, the body is
\* not parsed or mapped, and exactly one POST was issued.  No call issues
\* more than one POST.
C6_ErrorStatusRaises ==
    /\ posts <= 1
    /\ (pc \in {"done", "raised"} /\ posts > 0 /\ http_status >= 400) =>
        /\ pc = "raised"
        /\ error = "HTTPError"
        /\ result = None
        /\ response_data = None
        /\ posts = 1

\* a call that raised the transport error after a 404
C6_Witness ==
    /\ pc = "raised"
    /\ http_status = 404
    /\ error = "HTTPError"
    /\ posts = 1

\* C7: a returned response has prompt_tokens = prompt_eval_count,
\* completion_tokens = eval_count and total_tokens their sum; when either
\* field is missing from the parsed body the call raises a lookup error and
\* returns nothing.
C7_Usage ==
    /\ pc = "done" =>
        LET usage == result[1]["usage"]
            p == response_data[1]["prompt_eval_count"]
            c == response_data[1]["eval_count"]
        IN /\ usage["prompt_tokens"] = p
           /\ usage["completion_tokens"] = c
           /\ usage["total_tokens"] = p + c
           /\ usage["total_tokens"] = usage["prompt_tokens"] + usage["completion_tokens"]
    /\ (pc \in {"done", "raised"} /\ response_data # None
          /\ ~({"prompt_eval_count", "eval_count"} \subseteq DOMAIN response_data[1])) =>
        /\ pc = "raised"
        /\ error = "KeyError"
        /\ result = None

\* a returned response with usage 5 / 10 / 15
C7_Witness ==
    /\ pc = "done"
    /\ response_data[1]["prompt_eval_count"] = 5
    /\ response_data[1]["eval_count"] = 10
    /\ result[1]["usage"] = [prompt_tokens |-> 5, completion_tokens |-> 10, total_tokens |-> 15]

\* the entries the claim expects of a tool message
C8_Expected(msg) ==
    [j \in 1..Len(msg.content) |->
        [role |-> "tool", content |-> msg.content[j].content, name |-> msg.content[j].name]]

\* C8: a tool message with k parts gives exactly k entries {role: "tool",
\* content, name}, in part order, right after the entries of the messages
\* before it, and they are part of the payload.
C8_ToolMessageEntries ==
    data # None =>
        \A i \in 1..Len(TheRequest.messages) :
            TheRequest.messages[i].role = "tool" =>
                LET before == MapMessages(SubSeq(TheRequest.messages, 1, i - 1)).messages
                    upto == MapMessages(SubSeq(TheRequest.messages, 1, i)).messages
                IN /\ upto = before \o C8_Expected(TheRequest.messages[i])
                   /\ IsPrefix(upto, Entries)

\* a payload whose second message is a tool message with two parts, after a
\* message that gave an entry
C8_Witness ==
    /\ pc = "post"
    /\ Len(TheRequest.messages) = 2
    /\ TheRequest.messages[1].role # "tool"
    /\ TheRequest.messages[2].role = "tool"
    /\ Len(TheRequest.messages[2].content) = 2
    /\ Len(Entries) = 3
    /\ Entries[2] = [role |-> "tool", content |-> "r21", name |-> "f21"]
    /\ Entries[3] = [role |-> "tool", content |-> "r22", name |-> "f22"]

\* C9 as stated: on a 2xx status the result is the list of the names of
\* `models`, in order; on any other status the operation raises and returns
\* no list.
C9_NonSuccessRaises ==
    pc \in {"detected", "detect_raised"} =>
        IF 200 <= http_status /\ http_status < 300
        THEN (response_data # None /\ "models" \in DOMAIN response_data[1]) =>
                /\ pc = "detected"
                /\ Len(result[1]) = Len(response_data[1]["models"])
        ELSE /\ pc = "detect_raised"
             /\ result = None

\* C9, amended: on a 2xx status (and a body that holds `models`) the result
\* is the list of the names of `models`, same length and order; on a status
\* of 400 or more the operation raises and returns no list.
C9_ModelNames ==
    pc \in {"detected", "detect_raised"} =>
        /\ (200 <= http_status /\ http_status < 300
              /\ response_data # None /\ "models" \in DOMAIN response_data[1]) =>
            /\ pc = "detected"
            /\ result # None
            /\ Len(result[1]) = Len(response_data[1]["models"])
            /\ \A i \in 1..Len(result[1]) : result[1][i] = response_data[1]["models"][i]["name"]
        /\ http_status >= 400 =>
            /\ pc = "detect_raised"
            /\ error = "ClientResponseError"
            /\ result = None
            /\ response_data = None

\* a discovery that returned two different names in the backend's order
C9_Witness ==
    /\ pc = "detected"
    /\ http_status = 200
    /\ result = Some(<<"llama3", "qwen2">>)

\* chat calls that have returned or raised
FinishedCalls == IF pc = "post" THEN calls - 1 ELSE calls

\* C10: no loop created by a finished chat call is still open or still the
\* thread's current loop, and a call resolves media ids only on its own loop.
C10_NoLoopLeftBehind ==
    /\ \A i \in 1..FinishedCalls :
        /\ loops[i] # "open"
        /\ current_loop # i
    /\ media_loop # 0 => media_loop = calls

====
